---- MODULE Spec2Model ----
(***************************************************************************)
(* The event-sourcing core of the ddd toolkit: DomainEvent (commit flag),  *)
(* AggregateRoot (the ledger _domainEvents and the operations on it),      *)
(* publishEvents with its concurrent dispatches, and EventBusRouter.       *)
(***************************************************************************)
EXTENDS Integers, Sequences, FiniteSets

(* ----------------------------- bounds ---------------------------------- *)
MaxLedger == 2        \* applyChange is not called on a ledger this long
MaxHistory == 2       \* longest history handed to loadsFromHistory

\* The domain event objects that exist: the aggregate's creation event and
\* two change events of one class.
Events == {"creationEvent", "eventA", "eventB"}

\* The class of each event object (what instanceof tests).
EventType(e) == IF e = "creationEvent" THEN "Created" ELSE "Changed"
EventTypes == {"Created", "Changed"}

RECURSIVE SeqsUpTo(_, _)
SeqsUpTo(S, n) ==
  IF n = 0 THEN {<< >>}
  ELSE LET shorter == SeqsUpTo(S, n - 1)
       IN  shorter \cup {Append(s, x) : s \in {t \in shorter : Len(t) = n - 1}, x \in S}

Histories == SeqsUpTo(Events, MaxHistory)

VARIABLES
  committed,     \* DomainEvent.committed of every event object
  domainEvents,  \* AggregateRoot._domainEvents
  version,       \* AggregateRoot.version
  pc,            \* position of the publishEvents call
  pubEvents,     \* the array publishEvents is mapping over
  logged,        \* events logger.debug was called for in this publishEvents
  dispatches,    \* bus.dispatch calls of this publishEvents, in call order
  last,          \* the last operation called, its arguments and what it returned
  sinceCycle,    \* history: events applied since the last pull/clear/successful publish
  objs,          \* the Entity and ValueObject instances constructed, by name
  res,           \* the last call on an Entity or ValueObject and its outcome
  arrays,        \* the contents of the array objects on the heap
  ledgerRef,     \* the array object this._domainEvents refers to
  pulledRef      \* the array object the last pullDomainEvents returned

\* The aggregate's ledger, its events and its publishEvents call.
vars == << committed, domainEvents, version, pc, pubEvents, logged, dispatches,
           last, sinceCycle >>

\* The entities and value objects.
objVars == << objs, res >>

\* The ledger seen as array objects.
arrVars == << arrays, ledgerRef, pulledRef >>

allVars == << vars, objVars, arrVars >>

\* What is seen of a call: its name and arguments (event, hist, ctype), the
\* ledger and the event's flag when it was made (before, wasCommitted), what
\* it returned or handed to a bus (ret), the calls of the subclass's apply
\* hook it made (applied), and the state of the dispatches when
\* publishEvents completed (statuses).
NoCall == [op |-> "none", event |-> "none", hist |-> << >>, ctype |-> "none",
           before |-> << >>, wasCommitted |-> FALSE,
           ret |-> << >>, applied |-> << >>, statuses |-> << >>]

Call(op) == [NoCall EXCEPT !.op = op, !.before = domainEvents]

(* --------------------------- DomainEvent -------------------------------- *)
\* private committed = false
InitialCommitted == FALSE

isCommitted(c, e) == c[e]

\* A commit that flips the flag instead of setting it.
commitToggles(c, e) == [c EXCEPT ![e] = ~c[e]]

commit(c, e) == [c EXCEPT ![e] = TRUE]

\* A commitEvents that commits the first event of the ledger only.
commitFirstOnly(c, events) ==
  IF events = << >> THEN c ELSE commit(c, Head(events))

RECURSIVE commitAll(_, _)
\* this._domainEvents.forEach((e) => e.commit())
commitAll(c, events) ==
  IF events = << >> THEN c
  ELSE commitAll(commit(c, Head(events)), Tail(events))

(* --------------------------- AggregateRoot ------------------------------ *)
\* An applyInternalEventChanges that appends whatever isNew says.
applyAlwaysNew(ledger, event, isNew) == Append(ledger, event)

\* An applyInternalEventChanges that keeps the ledger free of duplicates.
applyDeduplicated(ledger, event, isNew) ==
  IF isNew /\ \A i \in 1..Len(ledger) : ledger[i] # event
  THEN Append(ledger, event) ELSE ledger

\* (this as any).apply(event); if (isNew) this._domainEvents.push(event)
applyInternalEventChanges(ledger, event, isNew) ==
  IF isNew THEN Append(ledger, event) ELSE ledger

RECURSIVE replayBreaks(_, _, _)
\* A loadsFromHistory that leaves the loop (break) at the creation event.
replayBreaks(state, history, creationEvent) ==
  IF history = << >> THEN state
  ELSE LET event == Head(history)
       IN  IF EventType(event) = creationEvent
           THEN state
           ELSE replayBreaks(<< applyInternalEventChanges(state[1], event, FALSE),
                                Append(state[2], event) >>,
                             Tail(history), creationEvent)

RECURSIVE replay(_, _, _)
\* The loop of loadsFromHistory: state is <<ledger, calls of the apply hook>>.
replay(state, history, creationEvent) ==
  IF history = << >> THEN state
  ELSE LET event == Head(history)
       IN  IF EventType(event) = creationEvent
           THEN replay(state, Tail(history), creationEvent)
           ELSE replay(<< applyInternalEventChanges(state[1], event, FALSE),
                          Append(state[2], event) >>,
                       Tail(history), creationEvent)

(* ---------------------- Entity and ValueObject -------------------------- *)
\* const MAX_PROPS = 50
MAX_PROPS == 50

MaxKeys == 51         \* most keys of a props object
MaxHookErrors == 1    \* most errors the subclass's validate hook adds
MaxErrors == 2        \* no error is added to a list this long after construction

\* The numbers of keys tried: none, few, and those around MAX_PROPS.
KeyCounts == {0, 1, 2} \cup (MAX_PROPS - 1)..MaxKeys

\* A props argument: its JavaScript type, the number of its own enumerable
\* keys (the length, for a string) and its own property "value" if it has one.
Props(type, keys, value) == [type |-> type, keys |-> keys, value |-> value]

EntityInputs ==
  {Props("undefined", 0, "absent"), Props("null", 0, "absent"),
   Props("number", 0, "absent"), Props("string", 0, "absent"),
   Props("string", 2, "absent")}
  \cup {Props("object", n, "absent") : n \in KeyCounts}

\* The values a primitive-wrapped value object is given.
PrimitiveValues == {"x", "", "undefined"}

ValueObjectInputs ==
  {Props("undefined", 0, "absent"), Props("null", 0, "absent"),
   Props("number", 0, "absent"), Props("string", 2, "absent"),
   Props("object", 0, "absent"), Props("object", 2, "absent")}
  \cup {Props("object", 1, v) : v \in PrimitiveValues}

\* The Id objects: two of them wrap the same identifier value.
IdObjects == {"idA", "idA2", "idB"}
IdValue(id) == IF id = "idB" THEN "2" ELSE "1"

\* Guard.isEmpty of a props argument: undefined, null, "" and an object
\* without keys are empty, a number is not.
GuardIsEmpty(p) ==
  CASE p.type \in {"undefined", "null"} -> TRUE
    [] p.type = "number" -> FALSE
    [] OTHER -> p.keys = 0

\* Guard.isEmpty of a primitive value
GuardIsEmptyValue(v) == v \in {"", "undefined"}

\* typeof props
TypeOf(p) == IF p.type = "null" THEN "object" ELSE p.type

\* Object.keys(props) throws a TypeError on undefined and on null
ObjectKeysThrows(p) == p.type \in {"undefined", "null"}

\* Object.keys(props).length: a string has its indices, a number has none
ObjectKeysLength(p) == IF p.type \in {"object", "string"} THEN p.keys ELSE 0

\* A bound check that refuses MAX_PROPS keys already.
tooManyPropsFrom50(n) == n >= MAX_PROPS

\* Object.keys(props).length > MAX_PROPS
tooManyProps(n) == n > MAX_PROPS

\* Entity.validateProps: whether it throws, and the errors it adds.
validateProps(p) ==
  LET notProvided == IF GuardIsEmpty(p) THEN << "ArgumentNotProvided" >> ELSE << >>
      invalid == IF TypeOf(p) # "object" THEN << "ArgumentInvalid" >> ELSE << >>
  IN  IF ObjectKeysThrows(p)
      THEN [threw |-> TRUE, errors |-> notProvided \o invalid]
      ELSE [threw |-> FALSE,
            errors |-> notProvided \o invalid \o
                       (IF tooManyProps(ObjectKeysLength(p))
                        THEN << "ArgumentOutOfRange" >> ELSE << >>)]

\* Object.prototype.hasOwnProperty.call(obj, 'value')
isDomainPrimitive(p) == p.value # "absent"

\* ValueObject.checkIfEmpty: the errors it adds.
checkIfEmpty(p) ==
  IF GuardIsEmpty(p) \/ (isDomainPrimitive(p) /\ GuardIsEmptyValue(p.value))
  THEN << "ArgumentNotProvided" >> ELSE << >>

\* The errors the subclass's validate hook adds through addError.
HookErrors(n) == [i \in 1..n |-> "Domain"]

NoObject == [kind |-> "none", props |-> Props("undefined", 0, "absent"),
             id |-> "none", errors |-> << >>, armed |-> FALSE,
             everValid |-> FALSE]

NoResult == [op |-> "none", slot |-> "none", other |-> "none", threw |-> FALSE,
             ret |-> "none", thrown |-> << >>]

Result(op, slot) == [NoResult EXCEPT !.op = op, !.slot = slot]

Slots == {"A", "B"}

\* new SomeEntity({ id, props }): the constructor throws or returns an entity
\* carrying the errors of validateProps and of the validate hook.
NewEntity(slot, id, p, hook) ==
  /\ LET v == validateProps(p)
     IN  IF v.threw
         THEN /\ objs' = [objs EXCEPT ![slot] = NoObject]
              /\ res' = [Result("new Entity", slot) EXCEPT !.threw = TRUE,
                            !.thrown = << "TypeError" >>]
         ELSE /\ objs' = [objs EXCEPT ![slot] =
                            [NoObject EXCEPT !.kind = "entity", !.props = p, !.id = id,
                                             !.errors = v.errors \o HookErrors(hook)]]
              /\ res' = Result("new Entity", slot)
  /\ UNCHANGED << vars, arrVars >>

\* new SomeValueObject(props): checkIfEmpty, then the validate hook.
NewValueObject(slot, p, hook) ==
  /\ objs' = [objs EXCEPT ![slot] =
                [NoObject EXCEPT !.kind = "vo", !.props = p,
                                 !.errors = checkIfEmpty(p) \o HookErrors(hook)]]
  /\ res' = Result("new ValueObject", slot)
  /\ UNCHANGED << vars, arrVars >>

\* An isValid that attaches the methods before it looks at the errors.
isValidArmsFirst(errors) == [ret |-> errors = << >>, arms |-> TRUE]

\* Entity.isValid: its result and whether it attaches the methods.
EntityIsValid(errors) ==
  IF Len(errors) > 0 THEN [ret |-> FALSE, arms |-> FALSE]
  ELSE [ret |-> TRUE, arms |-> TRUE]

\* ValueObject.isValid: its result and whether it attaches the methods.
ValueObjectIsValid(errors) ==
  IF Len(errors) > 0 THEN [ret |-> FALSE, arms |-> FALSE]
  ELSE [ret |-> TRUE, arms |-> TRUE]

isValid(slot) ==
  /\ objs[slot].kind # "none"
  /\ LET o == objs[slot]
         v == IF o.kind = "entity" THEN EntityIsValid(o.errors)
              ELSE ValueObjectIsValid(o.errors)
     IN  /\ objs' = [objs EXCEPT ![slot].armed = o.armed \/ v.arms,
                                 ![slot].everValid = o.everValid \/ v.ret]
         /\ res' = [Result("isValid", slot) EXCEPT !.ret = v.ret]
  /\ UNCHANGED << vars, arrVars >>

\* addError called by a method of the subclass after construction.
addError(slot) ==
  /\ objs[slot].kind # "none"
  /\ Len(objs[slot].errors) < MaxErrors
  /\ objs' = [objs EXCEPT ![slot].errors = Append(@, "Domain")]
  /\ res' = Result("addError", slot)
  /\ UNCHANGED << vars, arrVars >>

\* convertPropsToObject: a plain copy that keeps every key.
convertPropsToObject(keys) == keys

\* The keys of the props argument, as p1 .. pn.
SuppliedKeys(p) == {<< "p", i >> : i \in 1..p.keys}

\* The keys the entity itself contributes.
BaseKeys == {<< "id", 0 >>, << "createdAt", 0 >>, << "updatedAt", 0 >>}

\* Entity.internalGetPropsCopy: the keys of the object it returns.
internalGetPropsCopy(p) ==
  convertPropsToObject(BaseKeys \cup SuppliedKeys(p))

\* A forceUnpack that throws the first error only.
throwsFirstError(errors, p) ==
  IF Len(errors) > 0
  THEN [threw |-> TRUE, thrown |-> << Head(errors) >>, ret |-> "none"]
  ELSE [threw |-> FALSE, thrown |-> << >>,
        ret |-> IF isDomainPrimitive(p) THEN p.value ELSE "plain object"]

\* ValueObject.internalUnpack: the value, or the frozen plain object.
internalUnpack(p) == IF isDomainPrimitive(p) THEN p.value ELSE "plain object"

\* ValueObject.forceUnpack: throws this.errors or returns internalUnpack().
forceUnpackOf(errors, p) ==
  IF Len(errors) > 0
  THEN [threw |-> TRUE, thrown |-> errors, ret |-> "none"]
  ELSE [threw |-> FALSE, thrown |-> << >>, ret |-> internalUnpack(p)]

forceUnpack(slot) ==
  /\ objs[slot].kind = "vo"
  /\ LET r == forceUnpackOf(objs[slot].errors, objs[slot].props)
     IN  res' = [Result("forceUnpack", slot) EXCEPT !.threw = r.threw,
                    !.thrown = r.thrown, !.ret = r.ret]
  /\ UNCHANGED << vars, objs, arrVars >>

\* A call of a method isValid attaches: a TypeError when it is not attached.
Attached(slot, op, value) ==
  IF objs[slot].armed
  THEN [Result(op, slot) EXCEPT !.ret = value]
  ELSE [Result(op, slot) EXCEPT !.threw = TRUE, !.thrown = << "TypeError" >>]

\* entity.getPropsCopy()
getPropsCopy(slot) ==
  /\ objs[slot].kind = "entity"
  /\ res' = Attached(slot, "getPropsCopy", internalGetPropsCopy(objs[slot].props))
  /\ UNCHANGED << vars, objs, arrVars >>

\* valueObject.unpack()
unpack(slot) ==
  /\ objs[slot].kind = "vo"
  /\ res' = Attached(slot, "unpack", internalUnpack(objs[slot].props))
  /\ UNCHANGED << vars, objs, arrVars >>

\* Entity.internalEquals: this.id === object.id compares the two Id objects.
internalEquals(thisId, object, objectId) ==
  object # "null" /\ object # "undefined" /\ thisId = objectId

\* entity.equals(other): other is an entity, null or undefined.
equals(slot, other) ==
  /\ objs[slot].kind = "entity"
  /\ other \in Slots => objs[other].kind = "entity"
  /\ res' = [Attached(slot, "equals",
                      internalEquals(objs[slot].id, other,
                                     IF other \in Slots THEN objs[other].id ELSE "none"))
               EXCEPT !.other = other]
  /\ UNCHANGED << vars, objs, arrVars >>

ObjectsNext ==
  \/ \E id \in IdObjects, p \in EntityInputs, hook \in 0..MaxHookErrors :
       NewEntity("A", id, p, hook)
  \/ \E id \in IdObjects, n \in {1, 2} : NewEntity("B", id, Props("object", n, "absent"), 0)
  \/ \E p \in ValueObjectInputs, hook \in 0..MaxHookErrors : NewValueObject("A", p, hook)
  \/ \E slot \in Slots : isValid(slot)
  \/ addError("A")
  \/ forceUnpack("A")
  \/ getPropsCopy("A")
  \/ unpack("A")
  \/ \E other \in Slots \cup {"null", "undefined"} : equals("A", other)

(* ------------------ AggregateRoot: the operations ----------------------- *)
\* The caller's code runs: no publishEvents call is inside the synchronous
\* part of its map callback (nothing else runs between two awaits).
CallerRuns == pc \in {"idle", "awaiting"}

\* event.commit() called by the owner of an event
Commit(e) ==
  /\ CallerRuns
  /\ committed' = commit(committed, e)
  /\ last' = [Call("commit") EXCEPT !.event = e,
                 !.wasCommitted = isCommitted(committed, e)]
  /\ UNCHANGED << domainEvents, version, pc, pubEvents, logged, dispatches,
                  sinceCycle >>
  /\ UNCHANGED << objVars, arrVars >>

\* An applyChange that counts the event in the aggregate's version.
applyChangeBumpsVersion(e) ==
  /\ CallerRuns
  /\ Len(domainEvents) < MaxLedger
  /\ domainEvents' = applyInternalEventChanges(domainEvents, e, TRUE)
  /\ sinceCycle' = Append(sinceCycle, e)
  /\ version' = version + 1
  /\ last' = [Call("applyChange") EXCEPT !.event = e, !.applied = << e >>]
  /\ UNCHANGED << committed, pc, pubEvents, logged, dispatches >>
  /\ UNCHANGED << objVars, arrVars >>

applyChange(e) ==
  /\ CallerRuns
  /\ Len(domainEvents) < MaxLedger
  /\ domainEvents' = applyInternalEventChanges(domainEvents, e, TRUE)
  /\ sinceCycle' = Append(sinceCycle, e)
  /\ last' = [Call("applyChange") EXCEPT !.event = e, !.applied = << e >>]
  /\ UNCHANGED << committed, version, pc, pubEvents, logged, dispatches >>
  /\ UNCHANGED << objVars, arrVars >>

\* An applyInternalEventChanges that pushes before it calls the apply hook.
pushedBeforeApply(ledger, event, isNew) ==
  IF isNew THEN Append(ledger, event) ELSE ledger

\* (this as any).apply(event) throws: the push after it is not reached.
applyHookThrows(ledger, event, isNew) == ledger

\* applyChange when the subclass's apply hook throws on the event.
applyChangeThrows(e) ==
  /\ CallerRuns
  /\ Len(domainEvents) < MaxLedger
  /\ domainEvents' = applyHookThrows(domainEvents, e, TRUE)
  /\ last' = [Call("applyChange.threw") EXCEPT !.event = e]
  /\ UNCHANGED << committed, version, pc, pubEvents, logged, dispatches, sinceCycle >>
  /\ UNCHANGED << objVars, arrVars >>

loadsFromHistory(history, creationEvent) ==
  /\ CallerRuns
  /\ LET done == replay(<< domainEvents, << >> >>, history, creationEvent)
     IN  /\ domainEvents' = done[1]
         /\ last' = [Call("loadsFromHistory") EXCEPT !.hist = history,
                        !.ctype = creationEvent, !.applied = done[2]]
  /\ UNCHANGED << committed, version, pc, pubEvents, logged, dispatches,
                  sinceCycle >>
  /\ UNCHANGED << objVars, arrVars >>

\* const domainEvents = this._domainEvents.slice()
slice(arr) == arr

\* An assignment that leaves the array as it was.
keepLedger(arr) == arr

\* this._domainEvents = []
emptyLedger(arr) == << >>

pullDomainEvents ==
  /\ CallerRuns
  /\ domainEvents' = emptyLedger(domainEvents)
  /\ sinceCycle' = << >>
  /\ last' = [Call("pullDomainEvents") EXCEPT !.ret = slice(domainEvents)]
  /\ UNCHANGED << committed, version, pc, pubEvents, logged, dispatches >>
  /\ UNCHANGED << objVars, arrVars >>

commitEvents ==
  /\ CallerRuns
  /\ committed' = commitAll(committed, domainEvents)
  /\ last' = Call("commitEvents")
  /\ UNCHANGED << domainEvents, version, pc, pubEvents, logged, dispatches,
                  sinceCycle >>
  /\ UNCHANGED << objVars, arrVars >>

clearEvents ==
  /\ CallerRuns
  /\ domainEvents' = emptyLedger(domainEvents)
  /\ sinceCycle' = << >>
  /\ last' = Call("clearEvents")
  /\ UNCHANGED << committed, version, pc, pubEvents, logged, dispatches >>
  /\ UNCHANGED << objVars, arrVars >>

(* --------------------------- publishEvents ------------------------------ *)
\* The index of the array element the map callback is working on.
Current == Len(dispatches) + 1

\* A callback that dispatches right after logging, before the commit.
callbackSkipsCommit(at) == "dispatch"

\* The statements of the map callback, in order:
\* logger.debug(..); event.commit(); await eventBus.dispatch(event)
callbackNext(at) == IF at = "log" THEN "commit" ELSE "dispatch"

\* A map whose callback logs the first element only.
mapNextSkipsLog(i, n, status) == IF i < n THEN "commit" ELSE "awaiting"

\* A sequential loop that a failed dispatch ends.
mapNextStopsOnFailure(i, n, status) ==
  IF status # "failed" /\ i < n THEN "log" ELSE "awaiting"

\* Array.prototype.map visits every element of the array, whatever the
\* callbacks before returned: an async callback never throws to map.
mapNext(i, n, status) == IF i < n THEN "log" ELSE "awaiting"

\* Promise.any: fulfilled as soon as one promise is.
PromiseAny(ds) ==
  IF ds = << >> \/ \E i \in 1..Len(ds) : ds[i].status = "ok" THEN "fulfilled"
  ELSE IF \A i \in 1..Len(ds) : ds[i].status = "failed" THEN "rejected"
  ELSE "pending"

\* Promise.allSettled: fulfilled when every promise has settled, failed or not.
PromiseAllSettled(ds) ==
  IF \A i \in 1..Len(ds) : ds[i].status # "pending" THEN "fulfilled" ELSE "pending"

\* Promise.all: rejected as soon as one promise is, fulfilled when all are.
PromiseAll(ds) ==
  IF \E i \in 1..Len(ds) : ds[i].status = "failed" THEN "rejected"
  ELSE IF \A i \in 1..Len(ds) : ds[i].status = "ok" THEN "fulfilled"
  ELSE "pending"

\* A publishEvents that calls clearEvents before it maps: it maps over nothing.
mappedAfterClear(ledger) == << >>

\* this._domainEvents.map(...): the array the callbacks run over.
mappedArray(ledger) == ledger

\* publishEvents is called: map starts over the current array.
publishEvents ==
  /\ pc = "idle"
  /\ pubEvents' = mappedArray(domainEvents)
  /\ logged' = << >>
  /\ dispatches' = << >>
  /\ pc' = IF mappedArray(domainEvents) = << >> THEN "awaiting" ELSE "log"
  /\ last' = Call("publishEvents")
  /\ UNCHANGED << committed, domainEvents, version, sinceCycle >>
  /\ UNCHANGED << objVars, arrVars >>

\* logger.debug(...)
PublishLog ==
  /\ pc = "log"
  /\ logged' = Append(logged, pubEvents[Current])
  /\ pc' = callbackNext(pc)
  /\ last' = [Call("logger.debug") EXCEPT !.event = pubEvents[Current]]
  /\ UNCHANGED << committed, domainEvents, version, pubEvents, dispatches, sinceCycle >>
  /\ UNCHANGED << objVars, arrVars >>

\* event.commit()
PublishCommit ==
  /\ pc = "commit"
  /\ committed' = commit(committed, pubEvents[Current])
  /\ pc' = callbackNext(pc)
  /\ last' = [Call("event.commit") EXCEPT !.event = pubEvents[Current]]
  /\ UNCHANGED << domainEvents, version, pubEvents, logged, dispatches, sinceCycle >>
  /\ UNCHANGED << objVars, arrVars >>

\* eventBus.dispatch(event) is called: it throws or returns a rejected
\* promise at once ("failed"), or returns a promise still pending.
PublishDispatch(status) ==
  /\ pc = "dispatch"
  /\ dispatches' = Append(dispatches,
                          [event |-> pubEvents[Current],
                           committed |-> isCommitted(committed, pubEvents[Current]),
                           status |-> status])
  /\ pc' = mapNext(Current, Len(pubEvents), status)
  /\ last' = [Call("bus.dispatch") EXCEPT !.event = pubEvents[Current]]
  /\ UNCHANGED << committed, domainEvents, version, pubEvents, logged, sinceCycle >>
  /\ UNCHANGED << objVars, arrVars >>

\* The bus completes a pending dispatch, in any order.
DispatchSettles(i, status) ==
  /\ pc = "awaiting"
  /\ i \in 1..Len(dispatches)
  /\ dispatches[i].status = "pending"
  /\ dispatches' = [dispatches EXCEPT ![i].status = status]
  /\ last' = [Call("dispatch.settled") EXCEPT !.event = dispatches[i].event]
  /\ UNCHANGED << committed, domainEvents, version, pc, pubEvents, logged, sinceCycle >>
  /\ UNCHANGED << objVars, arrVars >>

\* await Promise.all(...) returns: this.clearEvents() and publishEvents
\* resolves. The call is over: its frame is dropped.
PublishResolves ==
  /\ pc = "awaiting"
  /\ PromiseAll(dispatches) = "fulfilled"
  /\ domainEvents' = emptyLedger(domainEvents)
  /\ sinceCycle' = << >>
  /\ pc' = "idle"
  /\ pubEvents' = << >>
  /\ logged' = << >>
  /\ dispatches' = << >>
  /\ last' = [Call("publishEvents.resolved") EXCEPT
                 !.before = pubEvents,
                 !.statuses = [i \in 1..Len(dispatches) |-> dispatches[i].status]]
  /\ UNCHANGED << committed, version >>
  /\ UNCHANGED << objVars, arrVars >>

\* await Promise.all(...) throws: publishEvents rejects, clearEvents is not
\* reached. The call is over; dispatches still pending are the bus's alone.
PublishRejects ==
  /\ pc = "awaiting"
  /\ PromiseAll(dispatches) = "rejected"
  /\ pc' = "idle"
  /\ pubEvents' = << >>
  /\ logged' = << >>
  /\ dispatches' = << >>
  /\ last' = [Call("publishEvents.rejected") EXCEPT
                 !.before = pubEvents,
                 !.statuses = [i \in 1..Len(dispatches) |-> dispatches[i].status]]
  /\ UNCHANGED << committed, domainEvents, version, sinceCycle >>
  /\ UNCHANGED << objVars, arrVars >>

(* --------------------------- EventBusRouter ----------------------------- *)
\* A router that hands a committed event to both buses.
routeDispatchesBoth(isCommittedNow, e) ==
  IF isCommittedNow
  THEN << [bus |-> "uncommitted", event |-> e], [bus |-> "committed", event |-> e] >>
  ELSE << [bus |-> "uncommitted", event |-> e] >>

\* The dispatch calls route makes: the bus and the event of each.
routeDispatches(isCommittedNow, e) ==
  IF isCommittedNow THEN << [bus |-> "committed", event |-> e] >>
  ELSE << [bus |-> "uncommitted", event |-> e] >>

route(e) ==
  /\ CallerRuns
  /\ last' = [Call("route") EXCEPT !.event = e,
                 !.ret = routeDispatches(isCommitted(committed, e), e)]
  /\ UNCHANGED << committed, domainEvents, version, pc, pubEvents, logged,
                  dispatches, sinceCycle >>
  /\ UNCHANGED << objVars, arrVars >>

(* ------------- AggregateRoot: the ledger as an array object ------------- *)
\* The array objects of the heap. Four are enough: while pullDomainEvents
\* runs, the ledger, the list of the previous pull, the copy and the new
\* empty ledger are alive together.
ArrayRefs == {"a1", "a2", "a3", "a4"}

\* The arrays nothing refers to any more are collected.
Collect(heap, live) == [r \in ArrayRefs |-> IF r \in live THEN heap[r] ELSE << >>]

\* A pull that hands out the ledger itself and keeps it.
pullHandsOutLedger(ledger, copy, empty) == [returned |-> ledger, ledger |-> ledger]

\* const events = this._domainEvents.slice(); this._domainEvents = [];
\* return events: the array returned and the array left as the ledger.
pullRefs(ledger, copy, empty) == [returned |-> copy, ledger |-> empty]

\* this._domainEvents.push(event)
applyChangeOnHeap(e) ==
  /\ Len(arrays[ledgerRef]) < MaxLedger
  /\ arrays' = [arrays EXCEPT ![ledgerRef] = Append(@, e)]
  /\ UNCHANGED << ledgerRef, pulledRef, vars, objVars >>

\* pullDomainEvents(): slice() and [] each allocate a new array.
pullDomainEventsOnHeap ==
  \E copy \in ArrayRefs \ {ledgerRef, pulledRef} :
    \E empty \in ArrayRefs \ {ledgerRef, pulledRef, copy} :
      LET refs == pullRefs(ledgerRef, copy, empty)
      IN  /\ ledgerRef' = refs.ledger
          /\ pulledRef' = refs.returned
          /\ arrays' = Collect([arrays EXCEPT ![copy] = slice(arrays[ledgerRef]),
                                              ![empty] = << >>],
                               {refs.ledger, refs.returned})
          /\ UNCHANGED << vars, objVars >>

\* clearEvents(): this._domainEvents = []
clearEventsOnHeap ==
  \E empty \in ArrayRefs \ {ledgerRef, pulledRef} :
    /\ ledgerRef' = empty
    /\ arrays' = Collect([arrays EXCEPT ![empty] = << >>], {empty, pulledRef})
    /\ UNCHANGED << pulledRef, vars, objVars >>

\* The caller adds an event to the list a pull returned.
CallerPush(e) ==
  /\ pulledRef \in ArrayRefs
  /\ Len(arrays[pulledRef]) < MaxLedger
  /\ arrays' = [arrays EXCEPT ![pulledRef] = Append(@, e)]
  /\ UNCHANGED << ledgerRef, pulledRef, vars, objVars >>

\* The caller removes the last event of the list a pull returned.
CallerPop ==
  /\ pulledRef \in ArrayRefs
  /\ arrays[pulledRef] # << >>
  /\ arrays' = [arrays EXCEPT ![pulledRef] = SubSeq(@, 1, Len(@) - 1)]
  /\ UNCHANGED << ledgerRef, pulledRef, vars, objVars >>

ArraysNext ==
  \/ \E e \in Events : applyChangeOnHeap(e)
  \/ pullDomainEventsOnHeap
  \/ clearEventsOnHeap
  \/ \E e \in Events : CallerPush(e)
  \/ CallerPop

(* --------------------------- specification ------------------------------ *)
Init ==
  /\ committed = [e \in Events |-> InitialCommitted]
  /\ domainEvents = << >>
  /\ version = 0
  /\ pc = "idle"
  /\ pubEvents = << >>
  /\ logged = << >>
  /\ dispatches = << >>
  /\ last = NoCall
  /\ sinceCycle = << >>
  /\ objs = [slot \in Slots |-> NoObject]
  /\ res = NoResult
  /\ arrays = [r \in ArrayRefs |-> << >>]
  /\ ledgerRef = "a1"
  /\ pulledRef = "none"

\* One logical operation at a time on the aggregate (single writer): the
\* caller starts its next operation when publishEvents has completed.
Sequential == pc = "idle"

Next ==
  \/ \E e \in Events : Sequential /\ Commit(e)
  \/ \E e \in Events : Sequential /\ applyChange(e)
  \/ \E e \in Events : Sequential /\ applyChangeThrows(e)
  \/ \E h \in Histories, t \in EventTypes : Sequential /\ loadsFromHistory(h, t)
  \/ Sequential /\ pullDomainEvents
  \/ Sequential /\ commitEvents
  \/ Sequential /\ clearEvents
  \/ \E e \in Events : Sequential /\ route(e)
  \/ publishEvents
  \/ PublishLog
  \/ PublishCommit
  \/ \E status \in {"pending", "failed"} : PublishDispatch(status)
  \/ \E i \in 1..MaxLedger, status \in {"ok", "failed"} : DispatchSettles(i, status)
  \/ PublishResolves
  \/ PublishRejects

Spec == Init /\ [][Next]_allVars

\* Entities and value objects are constructed, validated and used.
SpecObjects == Init /\ [][ObjectsNext]_allVars

\* The ledger and the lists pulled from it, as array objects.
SpecArrays == Init /\ [][ArraysNext]_allVars

\* The caller does not wait for publishEvents: while the call awaits its
\* dispatches, other operations run on the same aggregate.
NextInterleaved ==
  \/ \E e \in Events : Commit(e)
  \/ \E e \in Events : applyChange(e)
  \/ \E e \in Events : applyChangeThrows(e)
  \/ \E h \in Histories, t \in EventTypes : loadsFromHistory(h, t)
  \/ pullDomainEvents
  \/ commitEvents
  \/ clearEvents
  \/ \E e \in Events : route(e)
  \/ publishEvents
  \/ PublishLog
  \/ PublishCommit
  \/ \E status \in {"pending", "failed"} : PublishDispatch(status)
  \/ \E i \in 1..MaxLedger, status \in {"ok", "failed"} : DispatchSettles(i, status)
  \/ PublishResolves
  \/ PublishRejects

SpecInterleaved == Init /\ [][NextInterleaved]_allVars

(* ------------------------------- claims --------------------------------- *)
IsCommittedAll(events) == \A i \in 1..Len(events) : committed[events[i]]

\* C1: the ledger is exactly the events passed to applyChange since the last
\* pull, clear or successful publish, in call order and with duplicates;
\* pullDomainEvents returns that list and leaves the ledger empty, so that a
\* pull right after it returns the empty list.
C1_PullReturnsAppliedOnce ==
  /\ domainEvents = sinceCycle
  /\ last.op = "applyChange" => domainEvents = Append(last.before, last.event)
  /\ last.op = "pullDomainEvents" =>
       /\ last.ret = last.before
       /\ domainEvents = << >>

\* A pull that returned the same event twice, in the order it was applied.
C1_Witness ==
  /\ last.op = "pullDomainEvents"
  /\ last.ret = << "eventA", "eventA" >>
  /\ domainEvents = << >>

\* C2: loadsFromHistory leaves the ledger as it was, whatever the history and
\* the ledger; on an aggregate nothing was applied to, the ledger is empty
\* after it, which is what a following pullDomainEvents returns.
C2_ReplayLeavesLedger ==
  last.op = "loadsFromHistory" =>
    /\ domainEvents = last.before
    /\ sinceCycle = << >> => domainEvents = << >>

\* A replay that applied an event, on an aggregate with an event in its ledger.
C2_Witness ==
  /\ last.op = "loadsFromHistory"
  /\ last.hist = << "creationEvent", "eventA" >>
  /\ last.ctype = "Created"
  /\ last.applied = << "eventA" >>
  /\ domainEvents = << "eventB" >>

\* C3: every event is committed when publishEvents passes it to bus.dispatch,
\* and when publishEvents has resolved the ledger is empty, so that a
\* pullDomainEvents right after it returns the empty list.
C3_DispatchedCommittedThenEmpty ==
  /\ [](\A i \in 1..Len(dispatches) :
          dispatches[i].committed /\ committed[dispatches[i].event])
  /\ [](last.op = "publishEvents.resolved" => domainEvents = << >>)
  /\ [][(last.op = "publishEvents.resolved" /\ last'.op = "pullDomainEvents")
          => last'.ret = << >>]_vars

\* publishEvents resolved after it dispatched two different events.
C3_Witness ==
  /\ last.op = "publishEvents.resolved"
  /\ last.before = << "eventA", "eventB" >>
  /\ last.statuses = << "ok", "ok" >>

\* C4: route calls dispatch once, on the committed bus when the event is
\* committed at the call and on the uncommitted bus when it is not.
C4_RouteExactlyOneBus ==
  last.op = "route" =>
    /\ Len(last.ret) = 1
    /\ last.ret[1].event = last.event
    /\ last.ret[1].bus = IF committed[last.event] THEN "committed" ELSE "uncommitted"

\* A committed event was routed while another event is uncommitted.
C4_Witness ==
  /\ last.op = "route"
  /\ committed[last.event]
  /\ \E e \in Events : ~committed[e]

\* C5: every event starts uncommitted; no step of any operation takes a
\* committed event back to uncommitted; commit() on a committed event
\* changes nothing.
C5_CommittedMonotone ==
  /\ \A e \in Events : ~committed[e]
  /\ [][\A e \in Events : committed[e] => committed'[e]]_vars
  /\ [][(last'.op = "commit" /\ committed[last'.event]) =>
          UNCHANGED << committed, domainEvents, version, pc, pubEvents, logged,
                       dispatches, sinceCycle >>]_vars

\* commit() was called on an event that was committed already.
C5_Witness ==
  /\ last.op = "commit"
  /\ last.wasCommitted
  /\ committed[last.event]

\* C6: commitEvents commits every event of the ledger, leaves the ledger and
\* the dispatch calls as they were, and a pullDomainEvents right after it
\* returns the ledger's events, all committed.
C6_CommitEventsKeepsLedger ==
  /\ [](last.op = "commitEvents" =>
          domainEvents = last.before /\ IsCommittedAll(domainEvents))
  /\ [][last'.op = "commitEvents" => UNCHANGED << dispatches, logged, pc >>]_vars
  /\ [][(last.op = "commitEvents" /\ last'.op = "pullDomainEvents") =>
          last'.ret = last.before /\ IsCommittedAll(last'.ret)]_vars

\* commitEvents ran on a ledger of two different events.
C6_Witness ==
  /\ last.op = "commitEvents"
  /\ domainEvents = << "eventA", "eventB" >>

\* C7: clearEvents empties the ledger, calls no dispatch and changes no
\* commit flag; a pullDomainEvents right after it returns the empty list and
\* a publishEvents right after it maps over nothing and dispatches nothing.
C7_ClearDropsLedger ==
  /\ [](last.op = "clearEvents" => domainEvents = << >>)
  /\ [][last'.op = "clearEvents" => UNCHANGED << committed, dispatches, logged, pc >>]_vars
  /\ [][(last.op = "clearEvents" /\ last'.op = "pullDomainEvents") =>
          last'.ret = << >>]_vars
  /\ [][(last.op = "clearEvents" /\ last'.op = "publishEvents") =>
          pubEvents' = << >> /\ pc' = "awaiting"]_vars
  /\ [](Len(dispatches) <= Len(pubEvents))

\* clearEvents dropped a committed and an uncommitted event.
C7_Witness ==
  /\ last.op = "clearEvents"
  /\ Len(last.before) = 2
  /\ committed[last.before[1]]
  /\ ~committed[last.before[2]]

\* C8: the apply calls of loadsFromHistory are the events of the history that
\* are not of the creation event type, each once, in stream order.
C8_ReplayAppliesNonCreation ==
  last.op = "loadsFromHistory" =>
    last.applied = SelectSeq(last.hist, LAMBDA e : EventType(e) # last.ctype)

\* A history with the creation event after a change event.
C8_Witness ==
  /\ last.op = "loadsFromHistory"
  /\ last.hist = << "eventA", "creationEvent" >>
  /\ last.ctype = "Created"
  /\ last.applied = << "eventA" >>

\* C9 as stated: publishEvents neither resolves nor rejects while a dispatch
\* it called is pending.
C9_CompletesAfterAllDispatches ==
  last.op \in {"publishEvents.resolved", "publishEvents.rejected"} =>
    \A i \in 1..Len(last.statuses) : last.statuses[i] # "pending"

\* C9 amended: publishEvents resolves only when every dispatch it called has
\* succeeded, and rejects only when one has failed (others may be pending).
C9_ResolvesAfterAllDispatches ==
  /\ last.op = "publishEvents.resolved" =>
       /\ Len(last.statuses) = Len(last.before)
       /\ \A i \in 1..Len(last.statuses) : last.statuses[i] = "ok"
  /\ last.op = "publishEvents.rejected" =>
       /\ Len(last.statuses) = Len(last.before)
       /\ \E i \in 1..Len(last.statuses) : last.statuses[i] = "failed"

\* publishEvents rejected when the second dispatch had failed and the first
\* was still pending.
C9_Witness ==
  /\ last.op = "publishEvents.rejected"
  /\ last.statuses = << "pending", "failed" >>

\* C10: when the map of publishEvents is through, bus.dispatch was called
\* once for each event of the ledger, in ledger order, and each is committed,
\* whichever dispatches failed.
C10_AllDispatchedDespiteFailure ==
  /\ pc = "awaiting" =>
       /\ Len(dispatches) = Len(pubEvents)
       /\ \A i \in 1..Len(pubEvents) :
            dispatches[i].event = pubEvents[i] /\ committed[pubEvents[i]]
  /\ last.op \in {"publishEvents.resolved", "publishEvents.rejected"} =>
       /\ Len(last.statuses) = Len(last.before)
       /\ IsCommittedAll(last.before)

\* The first dispatch failed and the second event was dispatched all the same.
C10_Witness ==
  /\ pc = "awaiting"
  /\ Len(dispatches) = 2
  /\ dispatches[1].status = "failed"
  /\ dispatches[2].status = "pending"
  /\ dispatches[1].event # dispatches[2].event
\* C11: a step of a publishEvents call changes the ledger only when
\* bus.dispatch has been called for every event the ledger held, in order;
\* the call itself and the steps of its map leave the ledger as it was.
C11_ClearedAfterAllInitiated ==
  /\ [][(pc # "idle" /\ domainEvents' # domainEvents) =>
          /\ Len(dispatches) = Len(domainEvents)
          /\ \A i \in 1..Len(domainEvents) : dispatches[i].event = domainEvents[i]]_vars
  /\ [][last'.op = "publishEvents" => domainEvents' = domainEvents]_vars

\* publishEvents cleared a ledger of two events after both were dispatched.
C11_Witness ==
  /\ last.op = "publishEvents.resolved"
  /\ last.before = << "eventB", "creationEvent" >>
  /\ domainEvents = << >>

\* C12: publishEvents does not resolve when a dispatch it called has failed:
\* it can then only reject; and bus.dispatch is called once for each entry
\* of the ledger, in order, never again for an entry whose dispatch failed.
C12_FailurePropagatesNoRetry ==
  /\ last.op = "publishEvents.resolved" =>
       \A i \in 1..Len(last.statuses) : last.statuses[i] # "failed"
  /\ (pc = "awaiting" /\ \E i \in 1..Len(dispatches) : dispatches[i].status = "failed")
       => (ENABLED PublishRejects) /\ ~(ENABLED PublishResolves)
  /\ Len(dispatches) <= Len(pubEvents)
  /\ \A i \in 1..Len(dispatches) : dispatches[i].event = pubEvents[i]

\* publishEvents rejected although one of its two dispatches succeeded.
C12_Witness ==
  /\ last.op = "publishEvents.rejected"
  /\ last.statuses = << "ok", "failed" >>

\* The errors of an object are those of the base class alone.
NoDomainError(o) == \A i \in 1..Len(o.errors) : o.errors[i] # "Domain"

\* C13: the constructor of an Entity or of a Value Object returns normally
\* for every props argument; it does not throw at the call site.
C13_ConstructionNeverThrows ==
  res.op \in {"new Entity", "new ValueObject"} => ~res.threw

\* C14: for an entity whose only errors are those of validateProps, and whose
\* props are an object: with 1 to 50 keys isValid() returns true, and
\* getPropsCopy(), once isValid() has returned true, returns an object with
\* id, createdAt, updatedAt and every supplied key; with more than 50 keys
\* isValid() returns false.
C14_FiftyKeysValid ==
  LET o == objs["A"]
      plain == o.kind = "entity" /\ o.props.type = "object" /\ NoDomainError(o)
  IN  /\ (res.op = "isValid" /\ res.slot = "A" /\ plain) =>
            /\ o.props.keys \in 1..MAX_PROPS => res.ret = TRUE
            /\ o.props.keys > MAX_PROPS => res.ret = FALSE
      /\ (res.op = "getPropsCopy" /\ plain /\ o.everValid
            /\ o.props.keys \in 1..MAX_PROPS) =>
            /\ ~res.threw
            /\ BaseKeys \subseteq res.ret
            /\ \A i \in 1..o.props.keys : << "p", i >> \in res.ret

\* getPropsCopy() returned the copy of an entity of exactly 50 props.
C14_Witness ==
  /\ res.op = "getPropsCopy"
  /\ ~res.threw
  /\ objs["A"].props.keys = MAX_PROPS
  /\ Cardinality(res.ret) = MAX_PROPS + 3

\* C15: an object has the attached methods only if some isValid() on it
\* returned true; isValid() returns false exactly when the object has an
\* error; a step that attaches the methods is an isValid() returning true on
\* an object without errors; a call of an attached method returns only on an
\* object some isValid() accepted.
C15_CapabilitiesAfterValid ==
  /\ [](\A s \in Slots : objs[s].armed => objs[s].everValid)
  /\ [](res.op = "isValid" => (res.ret = FALSE <=> objs[res.slot].errors # << >>))
  /\ [](res.op \in {"equals", "getPropsCopy", "unpack"} /\ ~res.threw =>
          objs[res.slot].everValid)
  /\ [][\A s \in Slots : (objs'[s].armed /\ ~objs[s].armed) =>
          /\ objs[s].errors = << >>
          /\ objs'[s].errors = << >>
          /\ res'.op = "isValid" /\ res'.slot = s /\ res'.ret = TRUE]_allVars

\* isValid() returned false on a value object with two errors, and the
\* methods are not attached.
C15_Witness ==
  /\ res.op = "isValid"
  /\ res.slot = "A"
  /\ res.ret = FALSE
  /\ objs["A"].kind = "vo"
  /\ Len(objs["A"].errors) = 2
  /\ ~objs["A"].armed

\* C16: forceUnpack() returns exactly when the value object has no error,
\* which is when isValid() returns true, and then returns the unwrapped
\* value; otherwise it throws the whole list of errors. A primitive "x"
\* without domain error unpacks to "x"; a primitive "" makes forceUnpack()
\* throw and isValid() return false.
C16_ForceUnpackAllOrErrors ==
  LET o == objs["A"]
  IN  /\ res.op = "forceUnpack" =>
            /\ ~res.threw <=> o.errors = << >>
            /\ ~res.threw <=> ValueObjectIsValid(o.errors).ret
            /\ res.threw => res.thrown = o.errors
            /\ ~res.threw => res.ret = internalUnpack(o.props)
            /\ (o.props.value = "x" /\ NoDomainError(o)) => ~res.threw /\ res.ret = "x"
            /\ o.props.value = "" => res.threw /\ res.thrown[1] = "ArgumentNotProvided"
      /\ (res.op = "isValid" /\ res.slot = "A" /\ o.kind = "vo" /\ o.props.value = "")
            => res.ret = FALSE

\* forceUnpack() threw both errors of a primitive "" the hook also refused.
C16_Witness ==
  /\ res.op = "forceUnpack"
  /\ objs["A"].props.value = ""
  /\ res.thrown = << "ArgumentNotProvided", "Domain" >>

\* C17: for valid entities A and B, A.equals(B) is true exactly when B is an
\* entity whose identifier wraps the same value as A's, and so false for null
\* and undefined.
C17_EqualsByIdentifierValue ==
  (res.op = "equals" /\ ~res.threw) =>
    res.ret = (/\ res.other \in Slots
               /\ IdValue(objs[res.other].id) = IdValue(objs[res.slot].id))

\* C18: the ledger only holds events passed to applyChange; a step that adds
\* to the ledger is an applyChange whose apply hook returned for the event,
\* and it appends that event; no other step adds an event.
C18_ApplyChangeSolePath ==
  /\ [](\A i \in 1..Len(domainEvents) :
          \E j \in 1..Len(sinceCycle) : sinceCycle[j] = domainEvents[i])
  /\ [][(\/ \E i \in 1..Len(domainEvents') :
               \A j \in 1..Len(domainEvents) : domainEvents[j] # domainEvents'[i]
          \/ Len(domainEvents') > Len(domainEvents)) =>
          /\ last'.op = "applyChange"
          /\ last'.applied = << last'.event >>
          /\ domainEvents' = Append(domainEvents, last'.event)]_vars

\* An event was appended after the apply hook had thrown on another.
C18_Witness ==
  /\ last.op = "applyChange.threw"
  /\ last.event = "eventB"
  /\ domainEvents = << "eventA" >>

\* C19: the list a pull returned is never the ledger's array; a step that
\* changes the returned list leaves the ledger as it is, and a step that
\* changes the ledger leaves the returned list as it is.
C19_PulledListIsACopy ==
  /\ [](pulledRef # ledgerRef)
  /\ [][(pulledRef \in ArrayRefs /\ pulledRef' = pulledRef
           /\ arrays'[pulledRef] # arrays[pulledRef]) =>
          (ledgerRef' = ledgerRef /\ arrays'[ledgerRef] = arrays[ledgerRef])]_allVars
  /\ [][(pulledRef \in ArrayRefs /\ pulledRef' = pulledRef
           /\ arrays'[ledgerRef'] # arrays[ledgerRef]) =>
          arrays'[pulledRef] = arrays[pulledRef]]_allVars

\* The caller added eventB to the list it pulled, and creationEvent was
\* applied afterwards.
C19_Witness ==
  /\ pulledRef \in ArrayRefs
  /\ arrays[pulledRef] = << "eventA", "eventB" >>
  /\ arrays[ledgerRef] = << "creationEvent" >>

\* C20: the version counter is 0 after construction and after every step of
\* every operation.
C20_VersionStaysZero ==
  /\ version = 0
  /\ [][version' = version]_vars

\* Events were applied, replayed and published, and version is 0.
C20_Witness ==
  /\ last.op = "publishEvents.resolved"
  /\ last.before = << "eventA", "eventA" >>
  /\ version = 0

\* C21: an entry leaves the ledger only by a pullDomainEvents that returns
\* it, by a clearEvents the caller made, or by the clearEvents of a
\* publishEvents that committed the event and passed it to bus.dispatch; so
\* an event applied while publishEvents awaits is not dropped undispatched.
C21_NoEventLost ==
  [][\A i \in 1..Len(domainEvents) :
       (Len(domainEvents') < i \/ domainEvents'[i] # domainEvents[i]) =>
         \/ last'.op = "pullDomainEvents" /\ last'.ret = domainEvents
         \/ last'.op = "clearEvents"
         \/ /\ last'.op = "publishEvents.resolved"
            /\ isCommitted(committed, domainEvents[i])
            /\ \E j \in 1..Len(dispatches) : dispatches[j].event = domainEvents[i]]_vars

\* C22: in a publishEvents call logger.debug is called once for each entry
\* of the array, in array order, before the entry's event is committed, and
\* the event is committed before it is passed to bus.dispatch; bus.dispatch
\* is called for the entries in array order; the await starts, and a
\* dispatch completes, only when all of them have been called.
C22_LogCommitDispatchInOrder ==
  /\ [](/\ Len(logged) <= Len(pubEvents)
        /\ \A i \in 1..Len(logged) : logged[i] = pubEvents[i]
        /\ Len(dispatches) <= Len(pubEvents)
        /\ \A i \in 1..Len(dispatches) :
             dispatches[i].event = pubEvents[i] /\ dispatches[i].committed)
  /\ [](pc = "log" => Len(logged) = Len(dispatches))
  /\ [](pc \in {"commit", "dispatch"} => Len(logged) = Len(dispatches) + 1)
  /\ [](pc = "dispatch" => isCommitted(committed, pubEvents[Current]))
  /\ [](pc = "awaiting" =>
          Len(logged) = Len(pubEvents) /\ Len(dispatches) = Len(pubEvents))
  /\ [][last'.op = "event.commit" =>
          last.op = "logger.debug" /\ last.event = last'.event]_vars
  /\ [][last'.op = "bus.dispatch" =>
          last.op = "event.commit" /\ last.event = last'.event]_vars
  /\ [][last'.op = "dispatch.settled" =>
          pc = "awaiting" /\ Len(dispatches) = Len(pubEvents)]_vars

\* Both events were logged, committed and dispatched in ledger order, and no
\* dispatch has completed yet.
C22_Witness ==
  /\ pc = "awaiting"
  /\ pubEvents = << "eventB", "eventA" >>
  /\ logged = << "eventB", "eventA" >>
  /\ Len(dispatches) = 2
  /\ \A i \in 1..2 : dispatches[i].status = "pending" /\ dispatches[i].committed
====
